---------------------------- MODULE Spec2Model ----------------------------
(***************************************************************************)
(* Chunked multi-modal fusion and trend tracking (Server2/agents).         *)
(*                                                                         *)
(* The model follows master_agent.py (StreamAnalysis, MasterAgent),        *)
(* vision_agent.py (VisionAgent) and audio_agent.py (AudioAgent).          *)
(*                                                                         *)
(* Texts (model responses, observations) are sequences of tokens: a token  *)
(* is a word, a numeral, a punctuation mark or a blank.  Substring tests   *)
(* of the code are made token by token, with the table Embedded listing    *)
(* the words of the vocabulary that hold another word inside them.         *)
(* Confidences are in thousandths (1.0 is 1000).  Time is in whole         *)
(* seconds.  The telemetry counters (ProcessingStats) and the opaque       *)
(* payloads (image bytes) take no part in any decision and are left out.   *)
(***************************************************************************)
EXTENDS Integers, Sequences, FiniteSets, TLC

VARIABLES
    window_size,            \* StreamAnalysis.window_size
    recent_situations,      \* StreamAnalysis.recent_situations (deque)
    total_humans_trend,     \* StreamAnalysis.total_humans_trend
    danger_level_history,   \* StreamAnalysis.danger_level_history
    last_chunk_id,          \* MasterAgent.last_chunk_id
    last_chunk_time,        \* MasterAgent.last_chunk_time
    current_sector_index,   \* MasterAgent.current_sector_index
    now,                    \* the wall clock, time.time()
    n_calls,                \* history: process_chunk calls made so far
    last_call,              \* history: the latest process_chunk call
    added,                  \* history: every situation given to add_situation
    in_order,               \* history: ids 1,2,3,... so far, each processed
    seq_warned,             \* history: a sequence-break warning was logged
    pool,                   \* process_image: what each future has returned
    results,                \* process_image: the results list
    report,                 \* process_image: the report returned
    img,                    \* _generate_segments: the image size and the settings
    tiles,                  \* _generate_segments: the segments returned
    audio_call,             \* history: the latest AudioAgent.process_chunk call
    audio_stats,            \* AudioAgent.stats (ProcessingStats counters)
    tasks,                  \* the process_chunk coroutines in flight on the loop
    loop_owner,             \* the coroutine the event loop is running, 0 for none
    probe,                  \* history: one detection answer and what was made of it
    chunk_data,             \* RoboServer: the images queued by chunk, in key order
    data_lock,              \* RoboServer: the request holding data_lock, 0 for none
    requests,               \* RoboServer: the /upload requests and where each stands
    threads,                \* RoboServer: the process_chunk threads started
    best_images             \* RoboServer: best_images, as the chunk ids recorded

trackerVars == <<window_size, recent_situations, total_humans_trend,
                 danger_level_history, last_chunk_id, last_chunk_time,
                 current_sector_index, now, n_calls, last_call, added,
                 in_order, seq_warned>>

visionVars == <<pool, results, report>>

segmenterVars == <<img, tiles>>

audioVars == <<audio_call, audio_stats>>

overlapVars == <<tasks, loop_owner>>

parserVars == <<probe>>

uploadVars == <<chunk_data, data_lock, requests, threads, best_images>>

\* the variables of the operations studied one call at a time, and those of
\* the upload service
sideVars == <<parserVars, uploadVars>>

\* everything but the tracker, and everything but process_image
offTracker == <<visionVars, segmenterVars, audioVars, overlapVars, sideVars>>

offVision == <<trackerVars, segmenterVars, audioVars, overlapVars, sideVars>>

vars == <<trackerVars, visionVars, segmenterVars, audioVars, overlapVars, sideVars>>

---------------------------------------------------------------------------
(* Bounds of the model *)

MaxChunks == 4          \* process_chunk calls in one run of SpecFusion
MaxCalls == 3           \* process_chunk calls in one run of Spec
MaxChunkId == 3         \* chunk ids of Spec are drawn from 1..MaxChunkId
MaxWindow == 3          \* window capacities are drawn from 1..MaxWindow
MaxTime == 3            \* the clock stops here
MaxSubmissions == 7     \* process_chunk calls in one run of SpecFaults
MaxAudioCalls == 4      \* audio segments counted in one run of SpecAudio
MaxSide == 6            \* small image sides are drawn from 1..MaxSide
MaxTile == 4            \* small window, stride and minimum sizes, from 1..MaxTile
MaxTasks == 2           \* chunk submissions in flight together in SpecOverlap
MaxPhrases == 2         \* phrases in the description of a detection answer
MaxAdds == 103          \* add_situation calls in one run of SpecLongStream
MaxSmallChunks == 2     \* process_chunk calls in one run of SpecSmallFrames
MaxUploads == 3         \* /upload requests in one run of SpecUpload
MaxUploadChunk == 2     \* their chunk ids are drawn from 1..MaxUploadChunk
FreeAdds == 2           \* records of a long stream chosen freely at its start

(* Program constants *)

TrendCap == 100         \* add_situation: cap of the two trend arrays
GapThreshold == 2       \* process_chunk: seconds before a gap warning
WindowPx == 512         \* VisionAgent.window_size
StridePx == 384         \* VisionAgent.stride
MinSegmentPx == 256     \* VisionAgent.min_segment_size
MaxWorkers == 4         \* VisionAgent.max_workers
ThumbPx == 800          \* VisionAgent.process_chunk: thumbnail size

---------------------------------------------------------------------------
(* Texts *)

Min(a, b) == IF a < b THEN a ELSE b

\* str.lower() on one token
LowerToken(t) ==
    CASE t = "YES" -> "yes"
      [] t = "NO" -> "no"
      [] t = "Error" -> "error"
      [] t = "Trapped" -> "trapped"
      [] OTHER -> t

\* str.lower()
Lower(text) == [i \in 1..Len(text) |-> LowerToken(text[i])]

\* str.upper() on one token
UpperToken(t) ==
    CASE t = "yes" -> "YES"
      [] t = "no" -> "NO"
      [] t = "eyes" -> "EYES"
      [] OTHER -> t

\* str.upper()
Upper(text) == [i \in 1..Len(text) |-> UpperToken(text[i])]

\* <<inner, outer>>: the word outer holds the word inner as a substring
Embedded ==
    { <<"danger", "dangerous">>, <<"risk", "risky">>, <<"yes", "eyes">>,
      <<"YES", "EYES">>, <<"might", "mighty">> }

\* `phrase in text` for a phrase of one or more tokens
Contains(text, phrase) ==
    \E i \in 1..Len(text) :
        /\ i + Len(phrase) - 1 <= Len(text)
        /\ IF Len(phrase) = 1
              THEN text[i] = phrase[1] \/ <<phrase[1], text[i]>> \in Embedded
              ELSE \A j \in 1..Len(phrase) : text[i + j - 1] = phrase[j]

\* any(word in text for word in words)
ContainsAny(text, words) == \E w \in words : Contains(text, w)

\* str.startswith(tok)
StartsWith(text, tok) == Len(text) >= 1 /\ text[1] = tok

RECURSIVE Strip(_)
\* str.strip()
Strip(text) ==
    IF text = <<>> THEN <<>>
    ELSE IF Head(text) = " " THEN Strip(Tail(text))
    ELSE IF text[Len(text)] = " " THEN Strip(SubSeq(text, 1, Len(text) - 1))
    ELSE text

Numerals == {"0", "1", "2", "3"}

NumeralValue(t) ==
    CASE t = "0" -> 0 [] t = "1" -> 1 [] t = "2" -> 2 [] t = "3" -> 3

\* whether int(text) succeeds
IsIntLiteral(text) ==
    \/ Len(text) = 1 /\ text[1] \in Numerals
    \/ Len(text) = 2 /\ text[1] \in {"-", "+"} /\ text[2] \in Numerals

\* int(text)
ParseInt(text) ==
    IF Len(text) = 1 THEN NumeralValue(text[1])
    ELSE IF text[1] = "-" THEN 0 - NumeralValue(text[2])
    ELSE NumeralValue(text[2])

\* str(n), as an f-string renders an int
Str(n) ==
    LET digit(m) == CHOOSE t \in Numerals : NumeralValue(t) = m
    IN  IF n < 0 THEN <<"-", digit(0 - n)>> ELSE <<digit(n)>>

\* the position of the first ":" of the text, 0 when it has none
FirstColon(text) ==
    IF \E i \in 1..Len(text) : text[i] = ":"
       THEN CHOOSE i \in 1..Len(text) :
                text[i] = ":" /\ \A j \in 1..(i - 1) : text[j] # ":"
       ELSE 0

---------------------------------------------------------------------------
(* Python floats (IEEE 754 binary64), for the values the agents multiply *)

\* A positive float is [mant, exp]: it stands for mant * 2^exp, where mant is
\* a 53-bit integer written as fourteen hexadecimal digits, the first one 1.
\* Integers of that size are handled as sequences of bits, lowest bit first.

\* the bits of a number written in hexadecimal digits, highest digit first
HexToBits(hex) ==
    [k \in 1..(4 * Len(hex)) |->
        (hex[Len(hex) - ((k - 1) \div 4)] \div (2 ^ ((k - 1) % 4))) % 2]

\* the same number without leading zero bits
TrimBits(bits) ==
    LET ones == { i \in 1..Len(bits) : bits[i] = 1 }
    IN  IF ones = {} THEN <<>>
        ELSE SubSeq(bits, 1, CHOOSE i \in ones : \A j \in ones : j <= i)

\* a + 1
Increment(a) ==
    LET carry[k \in 0..Len(a)] ==
            IF k = 0 THEN 1 ELSE (a[k] + carry[k - 1]) \div 2
    IN  [k \in 1..(Len(a) + 1) |->
            IF k <= Len(a) THEN (a[k] + carry[k - 1]) % 2 ELSE carry[Len(a)]]

\* the hexadecimal digits of a number given by its bits, lowest digit first
Nibbles(bits) ==
    LET bit(i) == IF i <= Len(bits) THEN bits[i] ELSE 0
    IN  [k \in 1..((Len(bits) + 3) \div 4) |->
            bit(4 * k - 3) + 2 * bit(4 * k - 2) + 4 * bit(4 * k - 1) + 8 * bit(4 * k)]

\* a * b, digit column by digit column: column k sums the digit products of
\* weight 16^(k-1) and what the column below carries over
MulBits(a, b) ==
    LET x == Nibbles(a)
        y == Nibbles(b)
        n == Len(x) + Len(y)
        column(k) ==
            LET partial[i \in 0..Len(x)] ==
                    IF i = 0 THEN 0
                    ELSE partial[i - 1]
                           + (IF (k + 1 - i) \in 1..Len(y)
                                 THEN x[i] * y[k + 1 - i] ELSE 0)
            IN  partial[Len(x)]
        total[k \in 0..n] ==
            IF k = 0 THEN 0 ELSE column(k) + (total[k - 1] \div 16)
    IN  [k \in 1..(4 * n) |->
            ((total[((k - 1) \div 4) + 1] % 16) \div (2 ^ ((k - 1) % 4))) % 2]

\* the number of bits of a float's significand
MantissaBits == 53

\* the exact number bits * 2^exp rounded to the nearest float, ties to even
RoundToFloat(bits, exp) ==
    LET p == TrimBits(bits)
        drop == Len(p) - MantissaBits
        kept == SubSeq(p, drop + 1, Len(p))
        half == p[drop] = 1
        rest == \E i \in 1..(drop - 1) : p[i] = 1
        up == half /\ (rest \/ kept[1] = 1)
        rounded == TrimBits(IF up THEN Increment(kept) ELSE kept)
    IN  IF drop <= 0 THEN [mant |-> p, exp |-> exp]
        ELSE IF Len(rounded) > MantissaBits
                THEN [mant |-> Tail(rounded), exp |-> exp + drop + 1]
                ELSE [mant |-> rounded, exp |-> exp + drop]

\* a float from its hexadecimal significand and its exponent
Float(hex, exp) == [mant |-> TrimBits(HexToBits(hex)), exp |-> exp]

\* x * y on floats
FloatMul(x, y) == RoundToFloat(MulBits(x.mant, y.mant), x.exp + y.exp)

\* the literals 1.0, 0.7 and 0.8 as the interpreter reads them
Float1_0 == Float(<<1, 0, 0, 0, 0, 0, 0, 0, 0, 0, 0, 0, 0, 0>>, -52)

Float0_7 == Float(<<1, 6, 6, 6, 6, 6, 6, 6, 6, 6, 6, 6, 6, 6>>, -53)

Float0_8 == Float(<<1, 9, 9, 9, 9, 9, 9, 9, 9, 9, 9, 9, 9, 10>>, -53)

\* the literal 0.5
Float0_5 == Float(<<1, 0, 0, 0, 0, 0, 0, 0, 0, 0, 0, 0, 0, 0>>, -53)

---------------------------------------------------------------------------
(* VisionAgent *)

HedgeWords == { <<"maybe">>, <<"possibly">>, <<"unclear">>, <<"might">> }

LowVisibilityPhrases ==
    { <<"difficult", " ", "to", " ", "see">>, <<"partially", " ", "visible">> }

SafetyKeywords ==
    { <<"risk">>, <<"hazard">>, <<"danger">>, <<"unsafe">>, <<"injured">>,
      <<"trapped">> }

\* confidence *= factor, in thousandths
Discount(confidence, factor) == (confidence * factor) \div 1000

\* VisionAgent._get_confidence_level
GetConfidenceLevel(confidence) ==
    IF confidence >= 800 THEN "high"
    ELSE IF confidence >= 500 THEN "medium"
    ELSE "low"

\* _parse_analysis, lines 125-129: the confidence as the float it is
EstimateConfidence(details) ==
    LET c1 == IF ContainsAny(Lower(details), HedgeWords)
                 THEN FloatMul(Float1_0, Float0_7) ELSE Float1_0
    IN  IF ContainsAny(Lower(details), LowVisibilityPhrases)
           THEN FloatMul(c1, Float0_8) ELSE c1

\* VisionAgent._parse_analysis: the confidence returned, as the float it is
ParseConfidence(analysis) ==
    LET c == FirstColon(analysis)
        left == Strip(SubSeq(analysis, 1, c - 1))
        details == Strip(SubSeq(analysis, c + 1, Len(analysis)))
    IN  IF c # 0 /\ IsIntLiteral(left)
           THEN EstimateConfidence(details) ELSE Float0_5

\* VisionAgent._parse_analysis: (count, details, confidence); the confidence
\* is given in thousandths, rounded to the nearest
ParseAnalysis(analysis) ==
    LET c == FirstColon(analysis)
        left == Strip(SubSeq(analysis, 1, c - 1))
        details == Strip(SubSeq(analysis, c + 1, Len(analysis)))
        c1 == IF ContainsAny(Lower(details), HedgeWords)
                 THEN Discount(1000, 700) ELSE 1000
        c2 == IF ContainsAny(Lower(details), LowVisibilityPhrases)
                 THEN Discount(c1, 800) ELSE c1
    IN  IF c # 0 /\ IsIntLiteral(left)
           THEN [count |-> ParseInt(left), details |-> details, confidence |-> c2]
           ELSE [count |-> 0, details |-> analysis, confidence |-> 500]

\* VisionAgent._analyze_segment: the AnalysisResult of one segment, given what
\* the detection call did (reply.ok: it answered reply.text; otherwise it
\* raised an exception whose message is reply.text)
AnalyzeSegment(segment, reply) ==
    IF reply.ok
       THEN LET p == ParseAnalysis(reply.text)
            IN  [coordinates |-> segment.coordinates,
                 analysis |-> reply.text,
                 human_count |-> p.count,
                 details |-> p.details,
                 confidence |-> p.confidence,
                 safety_status |->
                     IF ContainsAny(Lower(reply.text), SafetyKeywords)
                        THEN "UNSAFE" ELSE "SAFE"]
       ELSE [coordinates |-> segment.coordinates,
             analysis |-> <<"Error", ":", " ">> \o reply.text,
             human_count |-> 0,
             details |-> <<>>,
             confidence |-> 0,
             safety_status |-> "UNKNOWN"]

\* range(0, stop, step) as a sequence
Range0(stop, step) ==
    LET n == IF stop <= 0 THEN 0 ELSE ((stop - 1) \div step) + 1
    IN  [k \in 1..n |-> (k - 1) * step]

\* a deliberately wrong variant: the far edge of a tile is not clamped
ClampedEnd_Unclamped(origin, window, limit) == origin + window

\* min(x + self.window_size, width)
ClampedEnd(origin, window, limit) == Min(origin + window, limit)

\* VisionAgent._generate_segments, for an image of the given size and an agent
\* built with the given window_size, stride and min_segment_size
GenerateSegmentsWith(width, height, window, stride, min_segment) ==
    LET ys == Range0(height - stride \div 2, stride)
        xs == Range0(width - stride \div 2, stride)
        origin(k) == <<xs[((k - 1) % Len(xs)) + 1], ys[((k - 1) \div Len(xs)) + 1]>>
        scan == [k \in 1..(Len(xs) * Len(ys)) |-> origin(k)]
        kept(o) == ~ ( \/ ClampedEnd(o[1], window, width) - o[1] < min_segment
                       \/ ClampedEnd(o[2], window, height) - o[2] < min_segment )
        boxes == SelectSeq(scan, kept)
    IN  [i \in 1..Len(boxes) |->
            [coordinates |-> <<boxes[i][1], boxes[i][2],
                               ClampedEnd(boxes[i][1], window, width),
                               ClampedEnd(boxes[i][2], window, height)>>,
             segment_number |-> i]]

\* VisionAgent._generate_segments of the agent as VisionAgent() builds it
GenerateSegments(width, height) ==
    GenerateSegmentsWith(width, height, WindowPx, StridePx, MinSegmentPx)

\* a deliberately wrong variant: the first result collected, whatever its confidence
MaxConfidenceResult_First(rs) == rs[1]

\* max(results, key=lambda x: x.confidence): the first of the list's maxima
MaxConfidenceResult(rs) ==
    LET i == CHOOSE i \in 1..Len(rs) :
                 /\ \A j \in 1..Len(rs) : rs[j].confidence <= rs[i].confidence
                 /\ \A j \in 1..(i - 1) : rs[j].confidence < rs[i].confidence
    IN  rs[i]

\* a deliberately wrong variant: max() of an empty list raises, and
\* process_image answers with its error report
AggregateResults_MaxOfEmpty(rs) ==
    IF rs = <<>>
       THEN [error |-> TRUE, total_human_count |-> 0, key_details |-> <<>>,
             segments |-> <<>>]
       ELSE LET best == MaxConfidenceResult(rs)
            IN  [error |-> FALSE,
                 total_human_count |-> best.human_count,
                 key_details |->
                     << Str(best.human_count) \o <<":", " ">> \o best.details >>,
                 segments |-> [i \in 1..Len(rs) |->
                                  [coordinates |-> rs[i].coordinates,
                                   analysis |-> rs[i].analysis,
                                   confidence |-> rs[i].confidence,
                                   safety_status |-> rs[i].safety_status]],
                 confidence_level |-> "high",
                 safety_statuses |-> <<best.safety_status>>]

\* VisionAgent._aggregate_results
AggregateResults(rs) ==
    LET best == MaxConfidenceResult(rs)
    IN  [error |-> FALSE,
         total_human_count |-> IF rs # <<>> THEN best.human_count ELSE 0,
         key_details |->
             IF rs # <<>>
                THEN << Str(best.human_count) \o <<":", " ">> \o best.details >>
                ELSE <<>>,
         segments |-> [i \in 1..Len(rs) |->
                          [coordinates |-> rs[i].coordinates,
                           analysis |-> rs[i].analysis,
                           confidence |-> rs[i].confidence,
                           safety_status |-> rs[i].safety_status]],
         confidence_level |-> "high",
         safety_statuses |->
             IF rs # <<>> THEN <<best.safety_status>> ELSE <<>>]

\* the report of the except branches of process_image and process_chunk
VisionErrorReport ==
    [error |-> TRUE, total_human_count |-> 0, key_details |-> <<>>,
     segments |-> <<>>]

\* a deliberately wrong variant: every result is kept
Kept_All(result) == TRUE

\* process_image, line 287: the test a result passes to be kept
Kept(result) == ~ StartsWith(result.analysis, "Error")

\* process_image, lines 285-288: the results kept from the futures, taken in
\* the order in which they complete
CollectResults(completed) == SelectSeq(completed, Kept)

\* VisionAgent.process_image on an opened image: frame.replies[i] is what the
\* detection call of segment i does, frame.order the order in which the
\* futures complete
ProcessImage(frame) ==
    LET segments == GenerateSegments(frame.width, frame.height)
        completed == [k \in 1..Len(segments) |->
                         AnalyzeSegment(segments[frame.order[k]],
                                        frame.replies[frame.order[k]])]
    IN  AggregateResults(CollectResults(completed))

\* VisionAgent.process_chunk: Image.open raises on bytes that are no image
VisionProcessChunk(frame) ==
    IF frame.decodable THEN ProcessImage(frame) ELSE VisionErrorReport

---------------------------------------------------------------------------
(* AudioAgent *)

AudioHedgeWords == { <<"maybe">>, <<"possibly">>, <<"unclear">> }

AudioUncertainPhrases ==
    { <<"difficult", " ", "to", " ", "determine">>, <<"uncertain">> }

\* a deliberately wrong variant: a failed classification leaves the defaults
AnalyzeRisk_DefaultsOnError(audio) ==
    [danger_detected |-> audio.classified /\ Contains(Upper(audio.verdict), <<"YES">>),
     risk_analysis |-> IF audio.classified THEN Strip(audio.verdict) ELSE <<>>,
     confidence |-> 1000]

\* AudioAgent._analyze_risk: (danger_detected, risk_analysis, confidence)
AnalyzeRisk(audio) ==
    IF audio.classified
       THEN LET analysis == Strip(audio.verdict)
                c1 == IF ContainsAny(Lower(analysis), AudioHedgeWords)
                         THEN Discount(1000, 700) ELSE 1000
                c2 == IF ContainsAny(Lower(analysis), AudioUncertainPhrases)
                         THEN Discount(c1, 800) ELSE c1
            IN  [danger_detected |-> Contains(Upper(analysis), <<"YES">>),
                 risk_analysis |-> analysis,
                 confidence |-> c2]
       ELSE [danger_detected |-> FALSE,
             risk_analysis |->
                 <<"Error", " ", "in", " ", "risk", " ", "analysis", ":", " ">>
                     \o audio.message,
             confidence |-> 0]

\* AudioAgent.process_chunk (with process_audio): audio.transcribed tells
\* whether the transcription call answered, audio.classified whether the
\* risk-classification call did; audio.message is the exception's message
AudioProcessChunk(audio) ==
    IF audio.transcribed
       THEN LET r == AnalyzeRisk(audio)
            IN  [error |-> FALSE,
                 transcription |-> audio.transcription,
                 danger_detected |-> r.danger_detected,
                 risk_analysis |-> r.risk_analysis,
                 confidence |-> r.confidence]
       ELSE [error |-> TRUE,
             transcription |-> <<>>,
             danger_detected |-> FALSE,
             risk_analysis |->
                 <<"Error", " ", "occurred", ":", " ">> \o audio.message,
             confidence |-> 0]

---------------------------------------------------------------------------
(* StreamAnalysis *)

\* a deliberately wrong variant: the deque has no maxlen
DequeAppend_Unbounded(q, x, n) == Append(q, x)

\* deque(maxlen=n).append(x)
DequeAppend(q, x, n) ==
    IF n = 0 THEN q
    ELSE IF Len(q) >= n THEN Append(Tail(q), x)
    ELSE Append(q, x)

\* a deliberately wrong variant: nothing is ever dropped
CappedAppend_Uncapped(l, x) == Append(l, x)

\* list.append(x), then pop(0) when longer than TrendCap
CappedAppend(l, x) ==
    IF Len(l) + 1 > TrendCap THEN Tail(Append(l, x)) ELSE Append(l, x)

DangerRank(level) ==
    CASE level = "low" -> 0 [] level = "medium" -> 1 [] level = "high" -> 2

\* a deliberately wrong variant: the newest count is compared with the one before it
HumanCountTrend_Adjacent(counts) ==
    LET n == Len(counts)
    IN  IF n > 1 /\ counts[n] > counts[n - 1] THEN "increasing"
        ELSE IF n > 1 /\ counts[n] < counts[n - 1] THEN "decreasing"
        ELSE "stable"

\* get_current_trends, lines 54-61: the trend of the window's human counts
HumanCountTrend(counts) ==
    IF Len(counts) > 1 /\ counts[Len(counts)] > counts[1] THEN "increasing"
    ELSE IF Len(counts) > 1 /\ counts[Len(counts)] < counts[1] THEN "decreasing"
    ELSE "stable"

\* a deliberately wrong variant: the newest level is compared with the oldest of the history
DangerTrend_FromOldest(history) ==
    LET n == Len(history)
    IN  IF n > 1 /\ DangerRank(history[n]) > DangerRank(history[1])
           THEN "escalating"
        ELSE IF n > 1 /\ DangerRank(history[n]) < DangerRank(history[1])
           THEN "deescalating"
        ELSE "stable"

\* get_current_trends, lines 63-73: the trend of the danger history
DangerTrend(history) ==
    LET n == Len(history)
    IN  IF n > 1 /\ DangerRank(history[n]) > DangerRank(history[n - 1])
           THEN "escalating"
        ELSE IF n > 1 /\ DangerRank(history[n]) < DangerRank(history[n - 1])
           THEN "deescalating"
        ELSE "stable"

\* StreamAnalysis.get_current_trends, on a window and a danger history
GetCurrentTrends(recent, history) ==
    IF recent = <<>>
       THEN [message |-> "No data available"]
       ELSE [humans_present |-> recent[Len(recent)].humans_detected,
             danger_level |-> history[Len(history)],
             latest_observations |-> recent[Len(recent)].key_observations,
             human_count_trend |->
                 HumanCountTrend([i \in 1..Len(recent) |->
                                     recent[i].humans_detected]),
             danger_trend |-> DangerTrend(history),
             time_window |-> Len(recent)]

\* a deliberately wrong variant: the whole record is stored twice
AddSituation_Twice(situation) ==
    /\ recent_situations' =
          DequeAppend(DequeAppend(recent_situations, situation, window_size),
                      situation, window_size)
    /\ total_humans_trend' =
          CappedAppend(CappedAppend(total_humans_trend, situation.humans_detected),
                       situation.humans_detected)
    /\ danger_level_history' =
          CappedAppend(CappedAppend(danger_level_history, situation.danger_level),
                       situation.danger_level)
    /\ added' = Append(Append(added, situation), situation)

\* a deliberately wrong variant: the danger level is recorded twice
AddSituation_HistoryTwice(situation) ==
    /\ recent_situations' = DequeAppend(recent_situations, situation, window_size)
    /\ total_humans_trend' = CappedAppend(total_humans_trend, situation.humans_detected)
    /\ danger_level_history' =
          CappedAppend(CappedAppend(danger_level_history, situation.danger_level),
                       situation.danger_level)
    /\ added' = Append(added, situation)

\* StreamAnalysis.add_situation
AddSituation(situation) ==
    /\ recent_situations' = DequeAppend(recent_situations, situation, window_size)
    /\ total_humans_trend' = CappedAppend(total_humans_trend, situation.humans_detected)
    /\ danger_level_history' = CappedAppend(danger_level_history, situation.danger_level)
    /\ added' = Append(added, situation)

---------------------------------------------------------------------------
(* MasterAgent *)

sectors == <<"A1", "A2", "B1", "B2", "C1", "C2">>

DangerKeywords ==
    { <<"injured">>, <<"trapped">>, <<"risk">>, <<"hazard">>, <<"danger">>,
      <<"emergency">> }

\* MasterAgent._confidence_to_float; a report of an except branch carries no
\* confidence_level and _analyze_situation then takes "medium"
ConfidenceToFloat(level) ==
    CASE level = "low" -> 300
      [] level = "medium" -> 600
      [] level = "high" -> 900
      [] OTHER -> 500

\* a deliberately wrong variant: the history never counts
HistoryBonus_Never(history) == 0

\* a deliberately wrong variant: a streak is worth two points
HistoryBonus_Double(history) ==
    IF history # <<>> /\ \A i \in 1..Len(history) : history[i] = "high"
       THEN 2 ELSE 0

\* _assess_danger_level, lines 308-311: the history's contribution
HistoryBonus(history) ==
    LET n == Len(history)
        tail == SubSeq(history, IF n > 3 THEN n - 2 ELSE 1, n)
    IN  IF history # <<>> /\ \A i \in 1..Len(tail) : tail[i] = "high"
           THEN 1 ELSE 0

\* _assess_danger_level, lines 301-306: the observations' contribution
VisionScore(key_details) ==
    Cardinality({ i \in 1..Len(key_details) :
                    ContainsAny(Lower(key_details[i]), DangerKeywords) })

\* _assess_danger_level, lines 297-299: the audio's contribution
AudioScore(danger_detected) == IF danger_detected THEN 2 ELSE 0

\* a deliberately wrong variant: a score of 2 already counts as "high"
DangerLevelOf_HighAtTwo(danger_score) ==
    IF danger_score >= 2 THEN "high"
    ELSE IF danger_score >= 1 THEN "medium"
    ELSE "low"

\* _assess_danger_level, lines 313-318
DangerLevelOf(danger_score) ==
    IF danger_score >= 3 THEN "high"
    ELSE IF danger_score >= 1 THEN "medium"
    ELSE "low"

\* MasterAgent._assess_danger_level
AssessDangerLevel(vision_results, audio_results, history) ==
    DangerLevelOf(AudioScore(audio_results.danger_detected)
                  + VisionScore(vision_results.key_details)
                  + HistoryBonus(history))

\* a deliberately wrong variant: only "high" is unsafe
SafetyStatusOf_HighOnly(danger_level) ==
    IF danger_level = "high" THEN "UNSAFE" ELSE "SAFE"

\* _analyze_situation, line 261
SafetyStatusOf(danger_level) ==
    IF danger_level = "low" THEN "SAFE" ELSE "UNSAFE"

\* MasterAgent._analyze_situation
AnalyzeSituation(chunk_id, vision_results, audio_results, sector, history) ==
    LET vision_confidence ==
            IF "confidence_level" \in DOMAIN vision_results
               THEN vision_results.confidence_level ELSE "medium"
        danger_level == AssessDangerLevel(vision_results, audio_results, history)
    IN  [chunk_id |-> chunk_id,
         humans_detected |-> vision_results.total_human_count,
         danger_level |-> danger_level,
         confidence |->
             (ConfidenceToFloat(vision_confidence) + audio_results.confidence)
                 \div 2,
         audio_transcription |-> audio_results.transcription,
         key_observations |->
             vision_results.key_details
                 \o (IF audio_results.risk_analysis # <<>>
                        THEN << <<"Audio", " ", "Analysis", ":", " ">>
                                  \o audio_results.risk_analysis >>
                        ELSE <<>>),
         sector |-> sector,
         safety_status |-> SafetyStatusOf(danger_level)]

---------------------------------------------------------------------------
(* Inputs *)

ReplyTrapped ==
    [ok |-> TRUE, text |-> <<"2", ":", " ", "two", " ", "people", " ", "trapped">>]

ReplyClear ==
    [ok |-> TRUE, text |-> <<"1", ":", " ", "one", " ", "person", " ", "standing">>]

ReplyHedged ==
    [ok |-> TRUE, text |-> <<"3", ":", " ", "possibly", " ", "three", " ", "people">>]

ReplyFailed == [ok |-> FALSE, text |-> <<"timeout">>]

\* what the detection call may do for one segment
DetectionReplies == {ReplyTrapped, ReplyClear, ReplyHedged, ReplyFailed}

\* image sizes (width, height), none above the thumbnail size: 0, 1, 2 and 4 segments
ImageSizes ==
    { sz \in { <<200, 200>>, <<512, 512>>, <<800, 512>>, <<800, 800>> } :
        sz[1] <= ThumbPx /\ sz[2] <= ThumbPx }

\* the most segments an image of ImageSizes is cut into
MaxSegments ==
    LET counts == { Len(GenerateSegments(sz[1], sz[2])) : sz \in ImageSizes }
    IN  CHOOSE n \in counts : \A m \in counts : m <= n

\* the orders in which n futures may complete
Orders(n) ==
    { o \in [1..n -> 1..n] : \A i, j \in 1..n : o[i] = o[j] => i = j }

\* the frames of a given size, over a set of replies
FramesOf(sz, replies) ==
    LET n == Len(GenerateSegments(sz[1], sz[2]))
    IN  { [decodable |-> TRUE, width |-> sz[1], height |-> sz[2],
           replies |-> r, order |-> o] : r \in [1..n -> replies], o \in Orders(n) }

\* sides below, just below and above the minimum segment size
SmallSides == {200, MinSegmentPx - 1, 600}

\* frames with a side below the minimum segment size, and one frame of a
\* single tile
SmallFrames ==
    UNION { FramesOf(sz, {}) :
              sz \in { s \in SmallSides \X SmallSides :
                         s[1] < MinSegmentPx \/ s[2] < MinSegmentPx } }
      \cup FramesOf(<<512, 512>>, {ReplyTrapped})

\* the video frames given to MasterAgent.process_chunk
ChunkFrames ==
    FramesOf(<<200, 200>>, {}) \cup FramesOf(<<512, 512>>, {ReplyTrapped, ReplyClear})

AudioDanger ==
    [transcribed |-> TRUE, transcription |-> <<"help">>, classified |-> TRUE,
     verdict |-> <<"YES", " ", "distress", " ", "call">>, message |-> <<>>]

AudioCalm ==
    [transcribed |-> TRUE, transcription |-> <<"hello">>, classified |-> TRUE,
     verdict |-> <<"NO", " ", "calm", " ", "voice">>, message |-> <<>>]

\* the audio segments given to MasterAgent.process_chunk
ChunkAudio == {AudioDanger, AudioCalm}

\* the (frame, audio) pairs of the chunks of Spec
SequencedInputs ==
    { <<f, AudioDanger>> : f \in FramesOf(<<512, 512>>, {ReplyTrapped}) }
        \cup { <<f, AudioCalm>> : f \in FramesOf(<<512, 512>>, {ReplyClear}) }

\* where process_chunk may raise: nowhere, or at line 189 (b64encode of the
\* video payload), after the sector was taken and before the situation is built
Faults == {"none", "encode"}

\* the same, with the first statement of the try block raising too: line 166,
\* print on a closed standard output (ValueError), before anything is done
ChunkFaults == {"none", "start", "encode"}

\* the line of process_chunk whose statement raises; past the end for no fault
FaultLine(fault) ==
    CASE fault = "start" -> 166
      [] fault = "encode" -> 189
      [] OTHER -> 240

\* str(e) of the exception raised
FaultMessage(fault) ==
    CASE fault = "start" -> <<"I/O", " ", "operation", " ", "on", " ", "closed", " ", "file">>
      [] fault = "encode" -> <<"a", " ", "bytes-like", " ", "object", " ", "is", " ", "required">>
      [] OTHER -> <<>>

\* the statement at the given line of process_chunk is executed to its end
Reached(fault, line) == line < FaultLine(fault)

---------------------------------------------------------------------------
(* MasterAgent.process_chunk *)

NoCall == [made |-> FALSE]

\* a deliberately wrong variant: only a forward jump counts as a break
SequenceBreak_ForwardOnly(chunk_id, last_id) == chunk_id > last_id + 1

\* lines 171-172: the sequence-break test
SequenceBreak(chunk_id, last_id) == chunk_id # last_id + 1

\* lines 170, 173-174: the timing-gap test
TimingGap(start, last_time) == start - last_time > GapThreshold

\* MasterAgent._get_next_sector: the index after the one handed out
NextSectorIndex(index) == ((index + 1) % Len(sectors))

\* a deliberately wrong variant: the result names the chunk before this one
ErrorResult_StaleId(chunk_id, timestamp, fault) ==
    [chunk_id |-> chunk_id - 1, error |-> TRUE, timestamp |-> timestamp,
     message |-> FaultMessage(fault)]

\* lines 233-239: the result of the except branch
ErrorResult(chunk_id, timestamp, fault) ==
    [chunk_id |-> chunk_id, error |-> TRUE, timestamp |-> timestamp,
     message |-> FaultMessage(fault)]

ProcessChunk(chunk_id, frame, audio, fault) ==
    LET seq_warning == Reached(fault, 171) /\ SequenceBreak(chunk_id, last_chunk_id)
        gap_warning == Reached(fault, 173) /\ TimingGap(now, last_chunk_time)
        vision_results == VisionProcessChunk(frame)
        audio_results == AudioProcessChunk(audio)
        current_sector == sectors[current_sector_index + 1]
        situation == AnalyzeSituation(chunk_id, vision_results, audio_results,
                                      current_sector, danger_level_history)
    IN  /\ n_calls' = n_calls + 1
        /\ current_sector_index' =
              IF Reached(fault, 181) THEN NextSectorIndex(current_sector_index)
              ELSE current_sector_index
        /\ seq_warned' = (seq_warned \/ seq_warning)
        /\ in_order' = (in_order /\ chunk_id = n_calls + 1 /\ fault = "none")
        /\ UNCHANGED <<window_size, now, offTracker>>
        /\ IF Reached(fault, 193)
              THEN AddSituation(situation)
              ELSE UNCHANGED <<recent_situations, total_humans_trend,
                               danger_level_history, added>>
        /\ IF Reached(fault, 208)
              THEN /\ last_chunk_id' = chunk_id
                   /\ last_chunk_time' = now
              ELSE UNCHANGED <<last_chunk_id, last_chunk_time>>
        /\ last_call' =
              IF fault = "none"
                 THEN [made |-> TRUE, chunk_id |-> chunk_id, fault |-> fault,
                       prior_last_id |-> last_chunk_id,
                       seq_warning |-> seq_warning,
                       gap_warning |-> gap_warning,
                       frame |-> frame,
                       audio_danger |-> audio_results.danger_detected,
                       key_details |-> vision_results.key_details,
                       prior_history |-> danger_level_history,
                       bonus |-> HistoryBonus(danger_level_history),
                       result |->
                          [chunk_id |-> chunk_id, error |-> FALSE,
                           timestamp |-> now,
                           current_analysis |-> situation,
                           stream_trends |->
                               GetCurrentTrends(recent_situations',
                                                danger_level_history')]]
                 ELSE [made |-> TRUE, chunk_id |-> chunk_id, fault |-> fault,
                       prior_last_id |-> last_chunk_id,
                       seq_warning |-> seq_warning,
                       gap_warning |-> gap_warning,
                       result |-> ErrorResult(chunk_id, now, fault)]

\* the stream pauses for longer than the gap threshold
Pause ==
    /\ now + GapThreshold + 1 <= MaxTime
    /\ now' = now + GapThreshold + 1
    /\ UNCHANGED <<window_size, recent_situations, total_humans_trend,
                   danger_level_history, last_chunk_id, last_chunk_time,
                   current_sector_index, n_calls, last_call, added, in_order,
                   seq_warned, offTracker>>

---------------------------------------------------------------------------
(* VisionAgent.process_image, future by future *)

IdlePool == [phase |-> "idle", futures |-> <<>>]

NoReport == [returned |-> FALSE]

\* lines 273-283: the segments are cut and one future is submitted for each
StartImage(sz) ==
    /\ pool.phase = "idle"
    /\ pool' = [phase |-> "collecting",
                futures |->
                    LET segments == GenerateSegments(sz[1], sz[2])
                    IN  [i \in 1..Len(segments) |->
                            [segment |-> segments[i], state |-> "queued"]]]
    /\ results' = <<>>
    /\ report' = NoReport
    /\ UNCHANGED offVision

\* a worker of the pool takes a queued future
WorkerStart(i) ==
    /\ pool.phase = "collecting"
    /\ i \in 1..Len(pool.futures)
    /\ pool.futures[i].state = "queued"
    /\ Cardinality({ j \in 1..Len(pool.futures) :
                       pool.futures[j].state = "running" }) < MaxWorkers
    /\ pool' = [pool EXCEPT !.futures[i].state = "running"]
    /\ UNCHANGED <<results, report, offVision>>

\* the worker's _analyze_segment returns
WorkerFinish(i, reply) ==
    /\ pool.phase = "collecting"
    /\ i \in 1..Len(pool.futures)
    /\ pool.futures[i].state = "running"
    /\ pool' = [pool EXCEPT !.futures[i] =
                    [segment |-> pool.futures[i].segment, state |-> "done",
                     raised |-> ~ reply.ok,
                     result |-> AnalyzeSegment(pool.futures[i].segment, reply)]]
    /\ UNCHANGED <<results, report, offVision>>

\* lines 285-288: as_completed hands over a finished future
Collect(i) ==
    /\ pool.phase = "collecting"
    /\ i \in 1..Len(pool.futures)
    /\ pool.futures[i].state = "done"
    /\ pool' = [pool EXCEPT !.futures[i].state = "collected"]
    /\ results' = IF Kept(pool.futures[i].result)
                     THEN Append(results, pool.futures[i].result)
                     ELSE results
    /\ UNCHANGED <<report, offVision>>

\* line 290: every future was handed over; the report is built and returned
Aggregate ==
    /\ pool.phase = "collecting"
    /\ \A i \in 1..Len(pool.futures) : pool.futures[i].state = "collected"
    /\ pool' = [pool EXCEPT !.phase = "returned"]
    /\ report' = [returned |-> TRUE, value |-> AggregateResults(results)]
    /\ UNCHANGED <<results, offVision>>

\* the agent is ready for the next image
Finish ==
    /\ pool.phase = "returned"
    /\ pool' = IdlePool
    /\ results' = <<>>
    /\ report' = NoReport
    /\ UNCHANGED offVision

\* a detection answer that opens with the word "Error": the call succeeded
ReplyErrorText ==
    [ok |-> TRUE, text |-> <<"Error", ":", " ", "image", " ", "unclear">>]

\* what the detection call may do for one segment, such an answer included
AnswerReplies == {ReplyErrorText, ReplyClear, ReplyFailed}

NextAnswers ==
    \/ \E sz \in ImageSizes : StartImage(sz)
    \/ \E i \in 1..MaxSegments : WorkerStart(i)
    \/ \E i \in 1..MaxSegments, reply \in AnswerReplies : WorkerFinish(i, reply)
    \/ \E i \in 1..MaxSegments : Collect(i)
    \/ Aggregate
    \/ Finish

NextVision ==
    \/ \E sz \in ImageSizes : StartImage(sz)
    \/ \E i \in 1..MaxSegments : WorkerStart(i)
    \/ \E i \in 1..MaxSegments, reply \in DetectionReplies : WorkerFinish(i, reply)
    \/ \E i \in 1..MaxSegments : Collect(i)
    \/ Aggregate
    \/ Finish

---------------------------------------------------------------------------
(* Initial values of the agents outside the tracker *)

NoImage == [given |-> FALSE]

NoTiles == [returned |-> FALSE]

NoAudioCall == [made |-> FALSE]

\* ProcessingStats() of AudioAgent.__init__
NoStats == [total_audio_processed |-> 0, total_dangers_detected |-> 0]

NoProbe == [given |-> FALSE]

\* the /upload requests, none of them received yet
NoRequests == [r \in 1..MaxUploads |-> [pc |-> "idle"]]

\* the coroutines of the submissions, none of them created yet
NoTasks == [t \in 1..MaxTasks |-> [pc |-> "idle"]]

---------------------------------------------------------------------------
(* VisionAgent._generate_segments, call by call *)

\* the images and agent settings of the segmenter: every small size with every
\* small setting, and the sizes of ImageSizes and 600 x 600 with the settings
\* of VisionAgent()
SegmenterInputs ==
    { [given |-> TRUE, width |-> w, height |-> h,
       window |-> ws, stride |-> st, min_segment |-> ms] :
         w \in 1..MaxSide, h \in 1..MaxSide,
         ws \in 1..MaxTile, st \in 1..MaxTile, ms \in 1..MaxTile }
    \cup { [given |-> TRUE, width |-> sz[1], height |-> sz[2],
            window |-> WindowPx, stride |-> StridePx, min_segment |-> MinSegmentPx] :
              sz \in ImageSizes \cup { <<600, 600>> } }

\* an image is handed to an agent
GiveImage(input) ==
    /\ ~ img.given
    /\ img' = input
    /\ tiles' = NoTiles
    /\ UNCHANGED <<trackerVars, visionVars, audioVars, overlapVars, sideVars>>

\* _generate_segments returns
Segment ==
    /\ img.given
    /\ ~ tiles.returned
    /\ tiles' = [returned |-> TRUE,
                 value |-> GenerateSegmentsWith(img.width, img.height, img.window,
                                                img.stride, img.min_segment)]
    /\ UNCHANGED <<img, trackerVars, visionVars, audioVars, overlapVars, sideVars>>

\* the segments are consumed; the next image may come
Release ==
    /\ tiles.returned
    /\ img' = NoImage
    /\ tiles' = NoTiles
    /\ UNCHANGED <<trackerVars, visionVars, audioVars, overlapVars, sideVars>>

NextSegmenter ==
    \/ \E input \in SegmenterInputs : GiveImage(input)
    \/ Segment
    \/ Release

---------------------------------------------------------------------------
(* MasterAgent.process_chunk as coroutines on one event loop *)

\* the await expressions of process_chunk: lines 177, 178 and 199
AwaitPoints == {"vision", "audio", "analysis"}

\* a deliberately wrong variant: every await hands the loop back
Suspends_Always(point) == TRUE

\* whether the coroutine awaited at the point ever suspends.  None does: the
\* agents call the synchronous API client and wait for the worker pool with
\* as_completed, so no awaitable that yields to the loop is ever reached
Suspends(point) == FALSE

\* the loop runs coroutine t, or is free to resume it
CanRun(t) == loop_owner = 0 \/ loop_owner = t

\* the owner of the loop after coroutine t reached the given await
AfterAwait(t, point) == IF Suspends(point) THEN 0 ELSE t

\* a chunk is submitted: its coroutine is created and scheduled
Arrive(t, input) ==
    /\ tasks[t].pc = "idle"
    /\ tasks' = [tasks EXCEPT ![t] =
                    [pc |-> "start", chunk_id |-> t,
                     frame |-> input[1], audio |-> input[2],
                     overlapped |-> \E u \in 1..MaxTasks :
                                       u # t /\ tasks[u].pc \notin {"idle", "done"}]]
    /\ UNCHANGED <<loop_owner, trackerVars, visionVars, segmenterVars, audioVars, sideVars>>

\* lines 166-177: the sequence and timing checks, up to the first await
Check(t) ==
    /\ tasks[t].pc = "start"
    /\ CanRun(t)
    /\ tasks' = [tasks EXCEPT ![t].pc = "detect"]
    /\ seq_warned' = (seq_warned \/ SequenceBreak(tasks[t].chunk_id, last_chunk_id))
    /\ loop_owner' = AfterAwait(t, "vision")
    /\ UNCHANGED <<window_size, recent_situations, total_humans_trend,
                   danger_level_history, last_chunk_id, last_chunk_time,
                   current_sector_index, now, n_calls, last_call, added, in_order,
                   visionVars, segmenterVars, audioVars, sideVars>>

\* lines 177-178: the vision report is back, the audio agent is awaited
Detect(t) ==
    /\ tasks[t].pc = "detect"
    /\ CanRun(t)
    /\ tasks' = [tasks EXCEPT ![t].pc = "fuse"]
    /\ loop_owner' = AfterAwait(t, "audio")
    /\ UNCHANGED <<trackerVars, visionVars, segmenterVars, audioVars, sideVars>>

\* lines 181-199: the sector is taken, the situation is built from the danger
\* history and recorded, the trends are read; the analysis is awaited
Fuse(t) ==
    /\ tasks[t].pc = "fuse"
    /\ CanRun(t)
    /\ tasks' = [tasks EXCEPT ![t].pc = "analysis"]
    /\ current_sector_index' = NextSectorIndex(current_sector_index)
    /\ AddSituation(AnalyzeSituation(tasks[t].chunk_id,
                                     VisionProcessChunk(tasks[t].frame),
                                     AudioProcessChunk(tasks[t].audio),
                                     sectors[current_sector_index + 1],
                                     danger_level_history))
    /\ loop_owner' = AfterAwait(t, "analysis")
    /\ UNCHANGED <<window_size, last_chunk_id, last_chunk_time, now, n_calls,
                   last_call, in_order, seq_warned,
                   visionVars, segmenterVars, audioVars, sideVars>>

\* lines 207-231: the chunk tracking is updated and the result returned
Return(t) ==
    /\ tasks[t].pc = "analysis"
    /\ CanRun(t)
    /\ tasks' = [tasks EXCEPT ![t].pc = "done"]
    /\ last_chunk_id' = tasks[t].chunk_id
    /\ last_chunk_time' = now
    /\ loop_owner' = 0
    /\ UNCHANGED <<window_size, recent_situations, total_humans_trend,
                   danger_level_history, current_sector_index, now, n_calls,
                   last_call, added, in_order, seq_warned,
                   visionVars, segmenterVars, audioVars, sideVars>>

NextOverlap ==
    \/ \E t \in 1..MaxTasks, input \in SequencedInputs : Arrive(t, input)
    \/ \E t \in 1..MaxTasks : Check(t)
    \/ \E t \in 1..MaxTasks : Detect(t)
    \/ \E t \in 1..MaxTasks : Fuse(t)
    \/ \E t \in 1..MaxTasks : Return(t)

---------------------------------------------------------------------------
(* AudioAgent.process_chunk, call by call *)

\* ProcessingStats.update, the two counters
StatsUpdate(stats, danger_detected) ==
    [total_audio_processed |-> stats.total_audio_processed + 1,
     total_dangers_detected |->
         stats.total_dangers_detected + (IF danger_detected THEN 1 ELSE 0)]

VerdictHedgedYes ==
    <<" ", "possibly", " ", "yes", ",", " ", "a", " ", "cry", " ">>

VerdictUncertain ==
    <<"NO", ",", " ", "but", " ", "difficult", " ", "to", " ", "determine">>

Transcriptions == { AudioDanger.transcription, AudioCalm.transcription }

ExceptionMessages == { <<"timeout">>, <<"rate", " ", "limit">> }

\* what the two calls of the audio pipeline may do for one chunk: both answer,
\* the classification raises, or the transcription (or the temporary file) raises
AudioInputs ==
    { [transcribed |-> TRUE, transcription |-> t, classified |-> TRUE,
       verdict |-> v, message |-> <<>>] :
         t \in Transcriptions,
         v \in {AudioDanger.verdict, AudioCalm.verdict, VerdictHedgedYes,
                VerdictUncertain} }
    \cup { [transcribed |-> TRUE, transcription |-> t, classified |-> FALSE,
            verdict |-> <<>>, message |-> e] :
              t \in Transcriptions, e \in ExceptionMessages }
    \cup { [transcribed |-> FALSE, transcription |-> <<>>, classified |-> FALSE,
            verdict |-> <<>>, message |-> e] : e \in ExceptionMessages }

\* AudioAgent.process_chunk on one audio segment; the counters are updated at
\* line 88, which is reached only when process_audio returned
AudioCall(audio) ==
    /\ audio_stats.total_audio_processed < MaxAudioCalls
    /\ audio_call' = [made |-> TRUE, input |-> audio,
                      output |-> AudioProcessChunk(audio)]
    /\ audio_stats' = IF audio.transcribed
                         THEN StatsUpdate(audio_stats,
                                          AudioProcessChunk(audio).danger_detected)
                         ELSE audio_stats
    /\ UNCHANGED <<trackerVars, visionVars, segmenterVars, overlapVars, sideVars>>

NextAudio == \E audio \in AudioInputs : AudioCall(audio)

---------------------------------------------------------------------------
(* One detection answer: _analyze_segment, then the fuser's keyword test *)

\* what an answer may say of the people and of the scene
Phrases ==
    { <<"people">>, <<"possibly">>, <<"maybe">>,
      <<"difficult", " ", "to", " ", "see">>, <<"partially", " ", "visible">>,
      <<"Trapped">>, <<"unsafe">>, <<"emergency">>,
      <<"note", ":", " ", "unclear">> }

RECURSIVE JoinPhrases(_)
\* the phrases of a list, one blank between two of them
JoinPhrases(ps) ==
    IF Len(ps) = 1 THEN ps[1]
    ELSE ps[1] \o <<" ">> \o JoinPhrases(Tail(ps))

\* descriptions of one to MaxPhrases phrases
Descriptions ==
    { JoinPhrases(ps) : ps \in UNION { [1..k -> Phrases] : k \in 1..MaxPhrases } }

\* how an answer may open: with a count and a colon, well formed or not
Openings ==
    { <<>>, <<"2", ":", " ">>, <<" ", "2", " ", ":">>, <<"-", "2", ":", " ">>,
      <<"two", ":", " ">>, <<":", " ">> }

\* the texts the detection call may answer
AnswerTexts == { o \o d : o \in Openings, d \in Descriptions }

\* the detection call answers for the single tile of a 512 x 512 image
Answer(text) ==
    /\ ~ probe.given
    /\ probe' = [given |-> TRUE, text |-> text, parsed |-> FALSE, scored |-> FALSE]
    /\ UNCHANGED <<trackerVars, visionVars, segmenterVars, audioVars, overlapVars,
                   uploadVars>>

\* _analyze_segment, lines 198-213: the answer is parsed and flagged
ParseAnswer ==
    /\ probe.given
    /\ ~ probe.parsed
    /\ probe' = [given |-> TRUE, text |-> probe.text, parsed |-> TRUE,
                 scored |-> probe.scored,
                 result |-> AnalyzeSegment(GenerateSegments(WindowPx, WindowPx)[1],
                                           [ok |-> TRUE, text |-> probe.text]),
                 confidence64 |-> ParseConfidence(probe.text)]
                    @@ (IF probe.scored THEN [score |-> probe.score] ELSE <<>>)
    /\ UNCHANGED <<trackerVars, visionVars, segmenterVars, audioVars, overlapVars,
                   uploadVars>>

\* _assess_danger_level, lines 301-306, on a summary whose observation is
\* the same text
ScoreAnswer ==
    /\ probe.given
    /\ ~ probe.scored
    /\ probe' = [probe EXCEPT !.scored = TRUE]
                    @@ [score |-> VisionScore(<<probe.text>>)]
    /\ UNCHANGED <<trackerVars, visionVars, segmenterVars, audioVars, overlapVars,
                   uploadVars>>

NextTexts ==
    \/ \E text \in AnswerTexts : Answer(text)
    \/ ParseAnswer
    \/ ScoreAnswer

---------------------------------------------------------------------------
(* StreamAnalysis.add_situation over a long stream *)

\* a SituationalAwareness record with the fields add_situation reads
StreamRecord(k, humans, level) ==
    [chunk_id |-> k, humans_detected |-> humans, danger_level |-> level,
     key_observations |-> <<>>, sector |-> sectors[((k - 1) % Len(sectors)) + 1],
     safety_status |-> SafetyStatusOf(level)]

\* the records the k-th call may be given: any of two at the start of the
\* stream and from the last call before the cap is reached, one in between
StreamRecords(k) ==
    IF k <= FreeAdds \/ k >= TrendCap
       THEN { StreamRecord(k, 0, "low"), StreamRecord(k, 3, "high") }
       ELSE { StreamRecord(k, k % 3, IF k % 2 = 0 THEN "medium" ELSE "high") }

\* one add_situation call
AddRecord(situation) ==
    /\ Len(added) < MaxAdds
    /\ AddSituation(situation)
    /\ UNCHANGED <<window_size, last_chunk_id, last_chunk_time,
                   current_sector_index, now, n_calls, last_call, in_order,
                   seq_warned, offTracker>>

NextLongStream == \E situation \in StreamRecords(Len(added) + 1) : AddRecord(situation)

---------------------------------------------------------------------------
(* RoboServer: upload_file and the process_chunk threads *)

\* the chunk ids that are keys of chunk_data
QueuedIds == { chunk_data[i].cid : i \in 1..Len(chunk_data) }

\* chunk_data[cid].append(image), the key being created when it is new
Enqueue(queue, cid, image) ==
    IF \E i \in 1..Len(queue) : queue[i].cid = cid
       THEN [i \in 1..Len(queue) |->
                IF queue[i].cid = cid
                   THEN [cid |-> cid, images |-> Append(queue[i].images, image)]
                   ELSE queue[i]]
       ELSE Append(queue, [cid |-> cid, images |-> <<image>>])

\* line 152: the test of a completed chunk
Completed(entry, chunk_id) == entry.cid < chunk_id

\* lines 119-139: a request with valid metadata arrives; its raw copy is saved
Receive(r, chunk_id) ==
    /\ requests[r].pc = "idle"
    /\ requests' = [requests EXCEPT ![r] = [pc |-> "waiting", chunk_id |-> chunk_id]]
    /\ UNCHANGED <<chunk_data, data_lock, threads, best_images>>
    /\ UNCHANGED <<trackerVars, visionVars, segmenterVars, audioVars, overlapVars,
                   parserVars>>

\* line 142: the request takes data_lock
Acquire(r) ==
    /\ requests[r].pc = "waiting"
    /\ data_lock = 0
    /\ data_lock' = r
    /\ requests' = [requests EXCEPT ![r].pc = "queueing"]
    /\ UNCHANGED <<chunk_data, threads, best_images>>
    /\ UNCHANGED <<trackerVars, visionVars, segmenterVars, audioVars, overlapVars,
                   parserVars>>

\* lines 143-149: the image (named by its request) is queued under its chunk
Queue(r) ==
    /\ requests[r].pc = "queueing"
    /\ data_lock = r
    /\ chunk_data' = Enqueue(chunk_data, requests[r].chunk_id, r)
    /\ requests' = [requests EXCEPT ![r].pc = "dispatching"]
    /\ UNCHANGED <<data_lock, threads, best_images>>
    /\ UNCHANGED <<trackerVars, visionVars, segmenterVars, audioVars, overlapVars,
                   parserVars>>

\* lines 152-155: every completed chunk is popped and given to a new thread;
\* the with block ends and the lock is released
Dispatch(r) ==
    /\ requests[r].pc = "dispatching"
    /\ data_lock = r
    /\ LET done(entry) == Completed(entry, requests[r].chunk_id)
           left(entry) == ~ done(entry)
           completed_chunks == SelectSeq(chunk_data, done)
       IN  /\ chunk_data' = SelectSeq(chunk_data, left)
           /\ threads' = threads \o
                  [i \in 1..Len(completed_chunks) |->
                      [cid |-> completed_chunks[i].cid,
                       images |-> completed_chunks[i].images,
                       by |-> r,
                       state |-> "started"]]
    /\ data_lock' = 0
    /\ requests' = [requests EXCEPT ![r].pc = "responding"]
    /\ UNCHANGED best_images
    /\ UNCHANGED <<trackerVars, visionVars, segmenterVars, audioVars, overlapVars,
                   parserVars>>

\* line 157: the response is sent; what is queued at that moment is kept as
\* history
Respond(r) ==
    /\ requests[r].pc = "responding"
    /\ requests' = [requests EXCEPT ![r] =
                       [pc |-> "returned", chunk_id |-> requests[r].chunk_id,
                        queued_at_return |-> QueuedIds]]
    /\ UNCHANGED <<chunk_data, data_lock, threads, best_images>>
    /\ UNCHANGED <<trackerVars, visionVars, segmenterVars, audioVars, overlapVars,
                   parserVars>>

\* process_chunk, lines 32-81: the thread picks the best image of its chunk
\* and records it in best_images under data_lock
RecordBest(t) ==
    /\ t \in 1..Len(threads)
    /\ threads[t].state = "started"
    /\ data_lock = 0
    /\ threads' = [threads EXCEPT ![t].state = "recorded"]
    /\ best_images' = Append(best_images, threads[t].cid)
    /\ UNCHANGED <<chunk_data, data_lock, requests>>
    /\ UNCHANGED <<trackerVars, visionVars, segmenterVars, audioVars, overlapVars,
                   parserVars>>

NextUpload ==
    \/ \E r \in 1..MaxUploads, chunk_id \in 1..MaxUploadChunk : Receive(r, chunk_id)
    \/ \E r \in 1..MaxUploads : Acquire(r)
    \/ \E r \in 1..MaxUploads : Queue(r)
    \/ \E r \in 1..MaxUploads : Dispatch(r)
    \/ \E r \in 1..MaxUploads : Respond(r)
    \/ \E t \in 1..MaxUploads : RecordBest(t)

---------------------------------------------------------------------------
(* Specifications *)

\* StreamAnalysis.__init__ and MasterAgent.__init__
Init ==
    /\ window_size \in 1..MaxWindow
    /\ recent_situations = <<>>
    /\ total_humans_trend = <<>>
    /\ danger_level_history = <<>>
    /\ last_chunk_id = 0
    /\ last_chunk_time = 0
    /\ current_sector_index = 0
    /\ now = 0
    /\ n_calls = 0
    /\ last_call = NoCall
    /\ added = <<>>
    /\ in_order = TRUE
    /\ seq_warned = FALSE
    /\ pool = IdlePool
    /\ results = <<>>
    /\ report = NoReport
    /\ img = NoImage
    /\ tiles = NoTiles
    /\ audio_call = NoAudioCall
    /\ audio_stats = NoStats
    /\ tasks = NoTasks
    /\ loop_owner = 0
    /\ probe = NoProbe
    /\ chunk_data = <<>>
    /\ data_lock = 0
    /\ requests = NoRequests
    /\ threads = <<>>
    /\ best_images = <<>>

\* a chunk arrives with any id; its processing may raise
Submit ==
    /\ n_calls < MaxCalls
    /\ \E chunk_id \in 1..MaxChunkId, input \in SequencedInputs, fault \in Faults :
          ProcessChunk(chunk_id, input[1], input[2], fault)

Next == Submit \/ Pause

\* the orchestrator under chunks of any id, pauses and processing faults
Spec == Init /\ [][Next]_vars

\* the chunks arrive in order, as StreamTester sends them, and none raises
SubmitInOrder ==
    /\ n_calls < MaxChunks
    /\ \E frame \in ChunkFrames, audio \in ChunkAudio :
          ProcessChunk(n_calls + 1, frame, audio, "none")

NextFusion == SubmitInOrder

\* the orchestrator under an orderly stream, over all the fusion inputs
SpecFusion == Init /\ [][NextFusion]_vars

\* chunks arrive in order; the processing of any of them may raise, at the
\* first statement or while the situation is built
SubmitFaulty ==
    /\ n_calls < MaxSubmissions
    /\ \E frame \in FramesOf(<<512, 512>>, {ReplyTrapped}), fault \in ChunkFaults :
          ProcessChunk(n_calls + 1, frame, AudioDanger, fault)

NextFaults == SubmitFaulty \/ Pause

\* chunks whose frame is too small to be cut into tiles, or is one tile
SubmitSmall ==
    /\ n_calls < MaxSmallChunks
    /\ \E frame \in SmallFrames, audio \in ChunkAudio :
          ProcessChunk(n_calls + 1, frame, audio, "none")

NextSmallFrames == SubmitSmall

SpecSmallFrames == Init /\ [][NextSmallFrames]_vars

\* the orchestrator under processing faults, over more chunks than sectors
SpecFaults == Init /\ [][NextFaults]_vars

\* VisionAgent.__init__; the tracker is not touched by process_image
InitVision == Init /\ window_size = 1

\* VisionAgent.process_image with its worker pool
SpecVision == InitVision /\ [][NextVision]_vars

\* process_image when a detection answer may open with the word "Error"
SpecAnswers == InitVision /\ [][NextAnswers]_vars

\* the upload service under concurrent /upload requests
InitUpload == Init /\ window_size = 1

SpecUpload == InitUpload /\ [][NextUpload]_vars

\* add_situation called until the trend arrays are full, and past that
SpecLongStream == Init /\ [][NextLongStream]_vars

\* one detection answer, parsed by the vision agent and tested by the fuser
InitTexts == Init /\ window_size = 1

SpecTexts == InitTexts /\ [][NextTexts]_vars

\* chunk submissions that overlap in time, on a fresh orchestrator
SpecOverlap == Init /\ [][NextOverlap]_vars

\* the segmenter alone
InitSegmenter == Init /\ window_size = 1

SpecSegmenter == InitSegmenter /\ [][NextSegmenter]_vars

\* AudioAgent.__init__; the tracker is not touched by the audio agent
InitAudio == Init /\ window_size = 1

\* the audio agent alone, over answers and failures of its two calls
SpecAudio == InitAudio /\ [][NextAudio]_vars


---------------------------------------------------------------------------
(* Claims *)

\* the latest process_chunk call returned a normal result
Processed == last_call.made /\ ~ last_call.result.error

\* the record built by the latest call, when it was processed
LastSituation == last_call.result.current_analysis

HighStreak(history) ==
    Len(history) >= 3 /\ \A i \in (Len(history) - 2)..Len(history) : history[i] = "high"

C1_Score ==
    (IF last_call.audio_danger THEN 2 ELSE 0)
      + Cardinality({ i \in 1..Len(last_call.key_details) :
                        ContainsAny(Lower(last_call.key_details[i]), DangerKeywords) })
      + last_call.bonus

C2_BonusNeedsThreeHighRecords ==
    Processed =>
        /\ last_call.bonus = 1 => HighStreak(last_call.prior_history)
        /\ Len(last_call.prior_history) < 3 => last_call.bonus = 0


\* the futures of the image whose detection call produced a result that
\* process_image keeps (its analysis does not start with "Error")
NonError ==
    { i \in 1..Len(pool.futures) : ~ StartsWith(pool.futures[i].result.analysis, "Error") }

SegmentResult(i) == pool.futures[i].result

\* the segments of NonError with the greatest confidence
TopConfidence ==
    { i \in NonError : \A j \in NonError :
                          SegmentResult(j).confidence <= SegmentResult(i).confidence }

\* "<count>: <detail_text>" of a segment result
Observation(r) == Str(r.human_count) \o <<":", " ">> \o r.details

RECURSIVE SumOfCounts(_)
SumOfCounts(S) ==
    IF S = {} THEN 0
    ELSE LET i == CHOOSE i \in S : TRUE
         IN  SegmentResult(i).human_count + SumOfCounts(S \ {i})

\* C3: when a frame has at least one non-error segment result, the summary's
\* total_human_count is the human_count of a segment result of maximum
\* confidence and key_observations holds exactly one entry,
\* "<count>: <detail_text>" of that same segment.
C3_TotalIsCountOfMaxConfidence ==
    (report.returned /\ NonError # {}) =>
        \E w \in TopConfidence :
            /\ report.value.total_human_count = SegmentResult(w).human_count
            /\ report.value.key_details = << Observation(SegmentResult(w)) >>

\* a frame with several non-error results of different confidences, whose
\* winner was not the first to complete and whose counts do not sum to the total
C3_Witness ==
    /\ report.returned
    /\ Cardinality(NonError) >= 2
    /\ TopConfidence # NonError
    /\ results[1].confidence < results[Len(results)].confidence
    /\ report.value.total_human_count # SumOfCounts(NonError)
    /\ report.value.total_human_count > 0

\* C4: whatever the order in which the futures complete, the summary is that
\* of the maximum-confidence segment with the lowest segment index.
C4_WinnerIsLowestIndexOfTies ==
    (report.returned /\ NonError # {}) =>
        LET w == CHOOSE i \in TopConfidence : \A j \in TopConfidence : i <= j
        IN  /\ report.value.total_human_count = SegmentResult(w).human_count
            /\ report.value.key_details = << Observation(SegmentResult(w)) >>


\* C5: a sequence-break warning is logged exactly when chunk_id is not
\* last_chunk_id + 1, and it never blocks processing: a chunk that raised the
\* warning and whose processing does not fail is fused and recorded as the
\* newest record of the window.  A fresh tracker fed ids 1,2,3,... with every
\* chunk processed never logs the warning.
C5_SequenceBreakWarning ==
    /\ last_call.made =>
          /\ last_call.seq_warning <=> (last_call.chunk_id # last_call.prior_last_id + 1)
          /\ (last_call.seq_warning /\ last_call.fault = "none") =>
                /\ ~ last_call.result.error
                /\ recent_situations # <<>>
                /\ recent_situations[Len(recent_situations)] = LastSituation
                /\ LastSituation.chunk_id = last_call.chunk_id
    /\ in_order => ~ seq_warned

\* an out-of-order chunk (an id already passed) was warned about and recorded
C5_Witness ==
    /\ last_call.made
    /\ last_call.seq_warning
    /\ last_call.chunk_id < last_call.prior_last_id
    /\ ~ last_call.result.error
    /\ recent_situations[Len(recent_situations)].chunk_id = last_call.chunk_id

\* C6: after process_chunk has handled a chunk with id c, last_chunk_id is c and
\* last_chunk_time is the time of that call, whatever the outcome of the chunk.
C6_TrackerResynchronizesAlways ==
    last_call.made =>
        /\ last_chunk_id = last_call.chunk_id
        /\ last_chunk_time = last_call.result.timestamp

\* the last min(k, n) entries of a sequence
LastOf(seq, n) ==
    SubSeq(seq, Len(seq) - Min(Len(seq), n) + 1, Len(seq))

\* C7: after k add_situation calls the window holds exactly the last
\* min(k, N) situations in arrival order, N being its capacity; its length
\* never exceeds N and the (N+1)-th append evicts the oldest record.
C7_WindowHoldsLastN ==
    /\ Len(recent_situations) <= window_size
    /\ Len(recent_situations) = Min(Len(added), window_size)
    /\ recent_situations = LastOf(added, window_size)

\* one more situation than the capacity was added: the oldest one is gone
C7_Witness ==
    /\ Len(added) = window_size + 1
    /\ Len(recent_situations) = window_size
    /\ recent_situations[1] = added[2]
    /\ added[1] # added[2]

C8_Rank(level) == IF level = "low" THEN 0 ELSE IF level = "medium" THEN 1 ELSE 2

\* the trends get_current_trends reports in the current state
ReportedTrends == GetCurrentTrends(recent_situations, danger_level_history)

\* C8: the reported danger trend compares only the two most recently recorded
\* danger levels under low < medium < high: "escalating" if the newest is
\* higher, "deescalating" if lower, "stable" if equal.
C8_DangerTrendOfLastTwo ==
    Len(added) >= 2 =>
        LET newest == C8_Rank(added[Len(added)].danger_level)
            before == C8_Rank(added[Len(added) - 1].danger_level)
            trend == IF newest > before THEN "escalating"
                     ELSE IF newest < before THEN "deescalating"
                     ELSE "stable"
        IN  /\ ReportedTrends.danger_trend = trend
            /\ Processed => last_call.result.stream_trends.danger_trend = trend

\* "escalating" is reported from "medium" to "high" although the oldest record
\* is "high" too
C8_Witness ==
    /\ Len(added) >= 3
    /\ added[1].danger_level = "high"
    /\ added[Len(added) - 1].danger_level = "medium"
    /\ added[Len(added)].danger_level = "high"
    /\ ReportedTrends.danger_trend = "escalating"

\* C9: the reported human-count trend compares the newest record of the window
\* with the oldest record still in the window: "increasing" if newest > oldest,
\* "decreasing" if newest < oldest, otherwise "stable".
C9_HumanTrendOldestVsNewest ==
    added # <<>> =>
        LET window == LastOf(added, window_size)
            newest == window[Len(window)].humans_detected
            oldest == window[1].humans_detected
            trend == IF newest > oldest THEN "increasing"
                     ELSE IF newest < oldest THEN "decreasing"
                     ELSE "stable"
        IN  /\ ReportedTrends.human_count_trend = trend
            /\ Processed => last_call.result.stream_trends.human_count_trend = trend

\* a window of three records whose middle record and whose evicted record both
\* differ from its ends, reported "stable"
C9_Witness ==
    /\ Len(added) > window_size
    /\ Len(recent_situations) = 3
    /\ recent_situations[1].humans_detected = recent_situations[3].humans_detected
    /\ recent_situations[2].humans_detected > recent_situations[3].humans_detected
    /\ added[1].humans_detected < recent_situations[3].humans_detected
    /\ ReportedTrends.human_count_trend = "stable"

\* C10: in every tracker state whose window holds fewer than 2 records, also
\* before any chunk is recorded, both trends are reported as "stable".
C10_StableBelowTwoRecords ==
    Len(recent_situations) < 2 =>
        /\ "human_count_trend" \in DOMAIN ReportedTrends
        /\ "danger_trend" \in DOMAIN ReportedTrends
        /\ ReportedTrends.human_count_trend = "stable"
        /\ ReportedTrends.danger_trend = "stable"

\* C11: process_chunk returns a result for every call; when a step of the
\* processing raised, the result is an error result that carries the id of
\* that chunk, the time of the call and the exception's message.
C11_ExceptionsBecomeErrorResults ==
    last_call.made =>
        /\ "result" \in DOMAIN last_call
        /\ last_call.fault # "none" =>
              /\ last_call.result.error
              /\ last_call.result.chunk_id = last_call.chunk_id
              /\ last_call.result.timestamp <= now
              /\ last_call.result.timestamp >= last_chunk_time
              /\ last_call.result.message = FaultMessage(last_call.fault)
              /\ last_call.result.message # <<>>

\* the first statement raised for a chunk that follows a recorded one, after a
\* pause: the error result names the chunk and the later time
C11_Witness ==
    /\ last_call.made
    /\ last_call.fault = "start"
    /\ last_call.result.error
    /\ last_call.chunk_id > 1
    /\ added # <<>>
    /\ last_call.result.chunk_id = last_call.chunk_id
    /\ last_call.result.timestamp > 0

\* the human counts and the danger levels of a sequence of situations
Counts(seq) == [i \in 1..Len(seq) |-> seq[i].humans_detected]

Levels(seq) == [i \in 1..Len(seq) |-> seq[i].danger_level]

\* the record of chunk c is the newest of the window and of both trend arrays
AllContain(c) ==
    /\ recent_situations # <<>>
    /\ recent_situations[Len(recent_situations)].chunk_id = c
    /\ added[Len(added)].chunk_id = c
    /\ total_humans_trend = LastOf(Counts(added), TrendCap)
    /\ danger_level_history = LastOf(Levels(added), TrendCap)

\* no record of chunk c is in the window or in the trend arrays
NoneContains(c) ==
    /\ \A i \in 1..Len(recent_situations) : recent_situations[i].chunk_id # c
    /\ \A i \in 1..Len(added) : added[i].chunk_id # c
    /\ total_humans_trend = LastOf(Counts(added), TrendCap)
    /\ danger_level_history = LastOf(Levels(added), TrendCap)

\* C12: after an error result the window holds at most N records, and the
\* window and both trend arrays hold that chunk's record all together or not
\* at all; a chunk whose own steps succeed gets a normal result and is
\* recorded, also right after an error result.
C12_TrackerConsistentAfterError ==
    /\ (last_call.made /\ last_call.result.error) =>
          /\ Len(recent_situations) <= window_size
          /\ recent_situations = LastOf(added, window_size)
          /\ AllContain(last_call.chunk_id) \/ NoneContains(last_call.chunk_id)
    /\ (last_call.made /\ last_call.fault = "none") =>
          /\ ~ last_call.result.error
          /\ AllContain(last_call.chunk_id)
          /\ recent_situations[Len(recent_situations)] = LastSituation

\* chunk 1 recorded, chunk 2 ended in an error result, chunk 3 recorded
C12_Witness ==
    /\ Processed
    /\ n_calls = 3
    /\ Len(added) = 2
    /\ added[1].chunk_id = 1
    /\ added[2].chunk_id = 3
    /\ recent_situations[Len(recent_situations)].chunk_id = 3

\* C13: the sector index advances by one position, modulo the number of
\* sectors, for every chunk submitted, whatever its outcome: after k
\* submissions it is k mod 6, and the k-th chunk is given sector (k-1) mod 6.
C13_SectorAdvancesPerSubmission ==
    /\ current_sector_index = n_calls % Len(sectors)
    /\ Processed =>
          LastSituation.sector = sectors[((n_calls - 1) % Len(sectors)) + 1]

\* safety_status is "SAFE" exactly when danger_level is "low", else "UNSAFE"
SafetyFollowsDanger(r) ==
    /\ r.safety_status \in {"SAFE", "UNSAFE"}
    /\ r.safety_status = "SAFE" <=> r.danger_level = "low"

\* C14: in every record of the window and in every normal result returned by
\* process_chunk, safety_status is "SAFE" if and only if danger_level is
\* "low", and "UNSAFE" otherwise.
C14_SafetyStatusDerived ==
    /\ \A i \in 1..Len(recent_situations) : SafetyFollowsDanger(recent_situations[i])
    /\ Processed => SafetyFollowsDanger(LastSituation)

\* a window holding a "low", a "medium" and a "high" record, the newest of
\* them just returned
C14_Witness ==
    /\ Processed
    /\ Len(recent_situations) = 3
    /\ { recent_situations[i].danger_level : i \in 1..3 } = {"low", "medium", "high"}
    /\ { recent_situations[i].safety_status : i \in 1..3 } = {"SAFE", "UNSAFE"}
    /\ LastSituation = recent_situations[3]

\* the tiles of the image whose detection call raised, and the others
FailedTiles == { i \in 1..Len(pool.futures) : pool.futures[i].raised }

AnsweredTiles == { i \in 1..Len(pool.futures) : ~ pool.futures[i].raised }

\* C15: a detection call that fails for a tile does not abort the frame: the
\* tile gets a result with human_count 0, confidence 0.0 and safety flag
\* UNKNOWN, that result is neither a candidate for the winner nor listed, and
\* the results of the other tiles are aggregated into the summary.
C15_FailedTileIsSetAside ==
    report.returned =>
        /\ ~ report.value.error
        /\ \A i \in FailedTiles :
              /\ SegmentResult(i).human_count = 0
              /\ SegmentResult(i).confidence = 0
              /\ SegmentResult(i).safety_status = "UNKNOWN"
        /\ Len(report.value.segments) = Cardinality(AnsweredTiles)
        /\ { report.value.segments[k].coordinates :
                k \in 1..Len(report.value.segments) }
              = { SegmentResult(i).coordinates : i \in AnsweredTiles }
        /\ AnsweredTiles # {} =>
              \E w \in AnsweredTiles :
                  /\ \A j \in AnsweredTiles :
                        SegmentResult(j).confidence <= SegmentResult(w).confidence
                  /\ report.value.total_human_count = SegmentResult(w).human_count
                  /\ report.value.key_details = << Observation(SegmentResult(w)) >>
        /\ AnsweredTiles = {} =>
              /\ report.value.total_human_count = 0
              /\ report.value.key_details = <<>>

\* a frame of four tiles: the first tile handed over had failed, two others
\* answered, and the summary counts the people of an answering tile
C15_Witness ==
    /\ report.returned
    /\ Len(pool.futures) = 4
    /\ FailedTiles # {}
    /\ Cardinality(AnsweredTiles) >= 2
    /\ Len(report.value.segments) < 4
    /\ report.value.total_human_count > 0

\* the three buckets of a confidence in thousandths
C17_Bucket(confidence) ==
    IF confidence >= 800 THEN "high"
    ELSE IF confidence >= 500 THEN "medium"
    ELSE "low"

\* C17: the summary's confidence_level is the bucket of the winning segment's
\* confidence: "high" from 0.8, "medium" from 0.5 and below 0.8, else "low".
C17_ConfidenceLevelOfWinner ==
    (report.returned /\ NonError # {}) =>
        \E w \in TopConfidence :
            report.value.confidence_level = C17_Bucket(SegmentResult(w).confidence)

\* the text ends with the given message
EndsWith(text, message) ==
    /\ Len(message) <= Len(text)
    /\ SubSeq(text, Len(text) - Len(message) + 1, Len(text)) = message

\* C16: whenever the transcription or the risk classification fails,
\* AudioAgent.process_chunk still returns a result, with danger_detected
\* false, confidence 0.0 and a risk text that carries the error message.
C16_AudioFailureIsContained ==
    audio_call.made =>
        /\ "output" \in DOMAIN audio_call
        /\ (~ audio_call.input.transcribed \/ ~ audio_call.input.classified) =>
              /\ audio_call.output.danger_detected = FALSE
              /\ audio_call.output.confidence = 0
              /\ StartsWith(audio_call.output.risk_analysis, "Error")
              /\ audio_call.input.message # <<>>
              /\ EndsWith(audio_call.output.risk_analysis, audio_call.input.message)

\* a classification failed after danger had been detected on earlier segments
C16_Witness ==
    /\ audio_call.made
    /\ audio_call.input.transcribed
    /\ ~ audio_call.input.classified
    /\ audio_stats.total_dangers_detected >= 1
    /\ audio_call.output.confidence = 0
    /\ ~ audio_call.output.danger_detected

\* the tile lies inside the image and is at least min_segment on both axes
TileWithinImage(t) ==
    /\ 0 <= t.coordinates[1]
    /\ t.coordinates[1] < t.coordinates[3]
    /\ t.coordinates[3] <= img.width
    /\ 0 <= t.coordinates[2]
    /\ t.coordinates[2] < t.coordinates[4]
    /\ t.coordinates[4] <= img.height
    /\ t.coordinates[3] - t.coordinates[1] >= img.min_segment
    /\ t.coordinates[4] - t.coordinates[2] >= img.min_segment

\* C18: for every image size and every window, stride and minimum size, each
\* tile returned lies fully inside the image (0 <= x0 < x1 <= width,
\* 0 <= y0 < y1 <= height) and is at least the minimum size on both axes.
C18_TilesWithinImage ==
    tiles.returned =>
        \A k \in 1..Len(tiles.value) : TileWithinImage(tiles.value[k])

\* several tiles, one of them cut short at the right edge of the image
C18_Witness ==
    /\ tiles.returned
    /\ Len(tiles.value) >= 2
    /\ \E k \in 1..Len(tiles.value) :
          /\ tiles.value[k].coordinates[3] = img.width
          /\ tiles.value[k].coordinates[3] - tiles.value[k].coordinates[1] < img.window
          /\ tiles.value[k].coordinates[1] > 0

\* the pixel (x, y) lies in the tile
PixelInTile(x, y, t) ==
    /\ t.coordinates[1] <= x /\ x < t.coordinates[3]
    /\ t.coordinates[2] <= y /\ y < t.coordinates[4]

\* C19: for every image at least the minimum size on both axes, the tiles
\* returned cover the image: every pixel lies in at least one tile.
C19_TilesCoverImage ==
    (tiles.returned /\ img.width >= img.min_segment /\ img.height >= img.min_segment) =>
        \A x \in 0..(img.width - 1), y \in 0..(img.height - 1) :
            \E k \in 1..Len(tiles.value) : PixelInTile(x, y, tiles.value[k])

\* the coroutine has begun process_chunk and has not returned
InFlight(t) == tasks[t].pc \in {"detect", "fuse", "analysis"}

\* the shared state of the orchestrator
TrackerState ==
    [window |-> recent_situations, humans |-> total_humans_trend,
     history |-> danger_level_history, last_chunk_id |-> last_chunk_id,
     sector_index |-> current_sector_index]

FreshTracker ==
    [window |-> <<>>, humans |-> <<>>, history |-> <<>>, last_chunk_id |-> 0,
     sector_index |-> 0]

\* the shared state after one chunk is processed alone, from a given state
TrackerAfter(tr, task) ==
    LET situation == AnalyzeSituation(task.chunk_id,
                                      VisionProcessChunk(task.frame),
                                      AudioProcessChunk(task.audio),
                                      sectors[tr.sector_index + 1], tr.history)
    IN  [window |-> DequeAppend(tr.window, situation, window_size),
         humans |-> CappedAppend(tr.humans, situation.humans_detected),
         history |-> CappedAppend(tr.history, situation.danger_level),
         last_chunk_id |-> task.chunk_id,
         sector_index |-> NextSectorIndex(tr.sector_index)]

RECURSIVE SerialRun(_, _)
\* the shared state after the first k chunks of an order, one after the other
SerialRun(order, k) ==
    IF k = 0 THEN FreshTracker
    ELSE TrackerAfter(SerialRun(order, k - 1), tasks[order[k]])

ListedAs(i) ==
    { k \in 1..Len(report.value.segments) :
        report.value.segments[k].coordinates = SegmentResult(i).coordinates }

\* C21: every tile for which the detection call returned an answer, winning
\* or not and whatever the text of the answer, appears exactly once in the
\* summary's per-segment list; only the tiles whose call failed are absent.
C21_AnsweredTilesAreListed ==
    report.returned =>
        /\ \A i \in AnsweredTiles : Cardinality(ListedAs(i)) = 1
        /\ \A i \in FailedTiles : ListedAs(i) = {}


\* C22: the fuser's +1 test of an observation and the analyzer's UNSAFE flag
\* use the same keywords, whatever the case of the letters: for one and the
\* same text the fuser adds +1 if and only if the analyzer flags it UNSAFE.
C22_SameKeywordsInFuserAndAnalyzer ==
    (probe.given /\ probe.parsed /\ probe.scored) =>
        (probe.score = 1 <=> probe.result.safety_status = "UNSAFE")


\* the text before the first colon is the numeral of a non-negative integer
C23_NonNegativeLeft(text) ==
    LET c == FirstColon(text)
        left == Strip(SubSeq(text, 1, c - 1))
    IN  /\ c # 0
        /\ \/ Len(left) = 1 /\ left[1] \in Numerals
           \/ Len(left) = 2 /\ left[1] = "+" /\ left[2] \in Numerals

\* C23: when the answer has a colon and the part before the first colon is
\* a non-negative integer n, human_count is n and detail_text is the rest
\* after that colon, trimmed; in every other case (no colon, no integer, a
\* negative integer) human_count is 0 and detail_text is the raw text.  So
\* human_count is never negative.
C23_ParseRule ==
    (probe.given /\ probe.parsed) =>
        LET text == probe.text
            c == FirstColon(text)
        IN  /\ IF C23_NonNegativeLeft(text)
                  THEN /\ probe.result.human_count
                              = ParseInt(Strip(SubSeq(text, 1, c - 1)))
                       /\ probe.result.details
                              = Strip(SubSeq(text, c + 1, Len(text)))
                  ELSE /\ probe.result.human_count = 0
                       /\ probe.result.details = text
            /\ probe.result.human_count >= 0

\* the literal 0.56
C29_Float0_56 == Float(<<1, 1, 14, 11, 8, 5, 1, 14, 11, 8, 5, 1, 14, 12>>, -53)

\* the answer opens with an integer and a colon: _parse_analysis succeeds
C29_Parsed ==
    LET c == FirstColon(probe.text)
    IN  c # 0 /\ IsIntLiteral(Strip(SubSeq(probe.text, 1, c - 1)))

\* C29: the confidence of a parsed answer starts at 1.0 and takes x0.7 for
\* a hedge word and x0.8 for a low-visibility phrase, each at most once: it
\* is exactly 1.0, 0.7, 0.8 or 0.56, and 0.56 when the description holds
\* both "possibly" and "difficult to see".
C29_ConfidenceIsOneOfFour ==
    (probe.given /\ probe.parsed /\ C29_Parsed) =>
        LET hedged == ContainsAny(Lower(probe.result.details), HedgeWords)
            dim == ContainsAny(Lower(probe.result.details), LowVisibilityPhrases)
        IN  probe.confidence64 =
                IF hedged /\ dim THEN C29_Float0_56
                ELSE IF hedged THEN Float0_7
                ELSE IF dim THEN Float0_8
                ELSE Float1_0


\* a process_chunk call is made and does not fail
C24_Succeeds == n_calls' = n_calls + 1 /\ ~ last_call'.result.error

\* C24: a successful process_chunk run checks the sequence, runs the two
\* pipelines, fuses, appends to the history and returns, in that order: the
\* sequence check sees the id of the chunk before, the streak bonus of chunk
\* k is taken from the records of the chunks processed before k only,
\* exactly one record is appended, it is the record of chunk k, and the
\* trends returned with the result already include it.
C24_StepsInOrder ==
    [][ C24_Succeeds =>
          LET situation == last_call'.result.current_analysis
              trends == last_call'.result.stream_trends
          IN  /\ last_call'.seq_warning = (last_call'.chunk_id # last_chunk_id + 1)
              /\ last_call'.bonus = HistoryBonus(Levels(added))
              /\ situation.danger_level =
                    DangerLevelOf(AudioScore(last_call'.audio_danger)
                                  + VisionScore(last_call'.key_details)
                                  + HistoryBonus(Levels(added)))
              /\ Len(added') = Len(added) + 1
              /\ added'[Len(added')] = situation
              /\ situation.chunk_id = last_call'.chunk_id
              /\ recent_situations'[Len(recent_situations')] = situation
              /\ Len(danger_level_history') = Len(danger_level_history) + 1
              /\ trends.humans_present = situation.humans_detected
              /\ trends.danger_level = situation.danger_level
              /\ trends.latest_observations = situation.key_observations
              /\ trends.time_window = Len(recent_situations')
      ]_vars

\* a chunk processed with the streak bonus after an earlier chunk had failed:
\* the records are fewer than the calls, and the trends show the new record
C24_Witness ==
    /\ Processed
    /\ last_call.bonus = 1
    /\ Len(added) >= 2
    /\ Len(added) < n_calls
    /\ added[Len(added)] = LastSituation
    /\ last_call.result.stream_trends.time_window = Len(recent_situations)


\* C25: after any sequence of add_situation calls the two trend arrays have
\* the same length, at most 100 (the oldest entry goes when a 101st comes),
\* entry i of both is of the same recorded situation, in arrival order, and
\* the last entry of each is the humans_detected and the danger_level of the
\* newest record of the window.
C25_TrendArraysParallelAndCapped ==
    LET n == Len(total_humans_trend)
        dropped == Len(added) - n
    IN  /\ Len(danger_level_history) = n
        /\ n = Min(Len(added), 100)
        /\ \A i \in 1..n :
              /\ total_humans_trend[i] = added[dropped + i].humans_detected
              /\ danger_level_history[i] = added[dropped + i].danger_level
        /\ recent_situations # <<>> =>
              /\ total_humans_trend[n]
                    = recent_situations[Len(recent_situations)].humans_detected
              /\ danger_level_history[n]
                    = recent_situations[Len(recent_situations)].danger_level

\* more than 100 records were added: the arrays hold 100 entries, the first
\* of them of the second record or a later one, which differs from the first
C25_Witness ==
    /\ Len(added) > 100
    /\ Len(total_humans_trend) = 100
    /\ Len(danger_level_history) = 100
    /\ added[1].humans_detected # added[Len(added) - 99].humans_detected
    /\ total_humans_trend[1] = added[Len(added) - 99].humans_detected
    /\ danger_level_history[100] = added[Len(added)].danger_level


\* C26: a record rated "high" is of a chunk whose audio result had
\* danger_detected true: the detection summary brings at most one
\* observation (+1) and the history at most +1, so without audio danger no
\* chunk reaches a score of 3.
C26_HighNeedsAudioDanger ==
    Processed =>
        /\ Len(last_call.key_details) <= 1
        /\ last_call.bonus <= 1
        /\ LastSituation.danger_level = "high" => last_call.audio_danger
        /\ ~ last_call.audio_danger => LastSituation.danger_level # "high"

\* the most a chunk without audio danger can get: a keyword observation on
\* top of a streak of "high" records, and it is rated "medium"
C26_Witness ==
    /\ Processed
    /\ ~ last_call.audio_danger
    /\ Len(last_call.key_details) = 1
    /\ ContainsAny(Lower(last_call.key_details[1]), DangerKeywords)
    /\ last_call.bonus = 1
    /\ last_call.prior_history # <<>>
    /\ LastSituation.danger_level = "medium"
    /\ LastSituation.safety_status = "UNSAFE"


\* the three records before the i-th are all "high"
C27_AfterThreeHighs(i) ==
    i >= 4 /\ \A j \in (i - 3)..(i - 1) : added[j].danger_level = "high"

\* C27: a record appended right after three consecutive "high" records is
\* never "low", and so never SAFE, whatever the audio and vision results of
\* its chunk: going from a streak of three "high" down to "low" takes two
\* chunks at least.
C27_NoLowRightAfterThreeHighs ==
    \A i \in 1..Len(added) :
        C27_AfterThreeHighs(i) =>
            /\ added[i].danger_level # "low"
            /\ added[i].safety_status # "SAFE"

\* a fourth chunk with calm audio and a frame too small for any tile, after
\* three "high" records: it is rated "medium"
C27_Witness ==
    /\ Len(added) >= 4
    /\ C27_AfterThreeHighs(4)
    /\ added[4].key_observations # <<>>
    /\ added[4].humans_detected = 0
    /\ added[4].audio_transcription = AudioCalm.transcription
    /\ added[4].danger_level = "medium"


\* the requests whose image has been queued
C28_Queued == { r \in 1..MaxUploads :
                 requests[r].pc \in {"dispatching", "responding", "returned"} }

\* the images waiting in chunk_data, and those handed to thread t
C28_Waiting ==
    UNION { { chunk_data[i].images[k] : k \in 1..Len(chunk_data[i].images) } :
              i \in 1..Len(chunk_data) }

C28_HandedTo(t) == { threads[t].images[k] : k \in 1..Len(threads[t].images) }

\* no chunk below the id of a returned upload was queued when it returned
C28_NothingLowerLeft ==
    \A r \in 1..MaxUploads :
        requests[r].pc = "returned" =>
            \A cid \in requests[r].queued_at_return : cid >= requests[r].chunk_id

\* every image queued so far waits in chunk_data or went to exactly one
\* thread, the thread of its chunk
C28_HandedOnce ==
    /\ \A r \in C28_Queued :
          \/ r \in C28_Waiting /\ \A t \in 1..Len(threads) : r \notin C28_HandedTo(t)
          \/ /\ r \notin C28_Waiting
             /\ Cardinality({ t \in 1..Len(threads) : r \in C28_HandedTo(t) }) = 1
    /\ \A t \in 1..Len(threads) :
          \A r \in C28_HandedTo(t) : requests[r].chunk_id = threads[t].cid

\* a chunk is dispatched by an upload of a higher chunk id only, and the
\* highest id queued so far is still queued
C28_HighestStays ==
    /\ \A t \in 1..Len(threads) : requests[threads[t].by].chunk_id > threads[t].cid
    /\ \A r \in C28_Queued :
          (\A q \in C28_Queued : requests[q].chunk_id <= requests[r].chunk_id)
              => requests[r].chunk_id \in QueuedIds

\* C28: under any interleaving of concurrent /upload requests, once an
\* upload for chunk c has returned no chunk below c is left queued; each
\* such chunk was taken out under the lock and handed, with all the images
\* queued for it, to exactly one process_chunk thread; and no chunk is
\* dispatched before an upload of a higher chunk id has arrived, so the
\* highest id received so far stays queued.
C28_LowerChunksLeaveTheQueue ==
    /\ C28_NothingLowerLeft
    /\ C28_HandedOnce
    /\ C28_HighestStays


\* the frame of the latest call is smaller than M = 256 on an axis
C30_SmallFrame == last_call.frame.width < 256 \/ last_call.frame.height < 256

\* C30: an image smaller than M on either axis yields zero tiles, and that
\* is "no segments to analyze", not an error: the frame summary has
\* total_human_count 0, no key observations and no error field, and the
\* chunk is fused and recorded all the same.
C30_SmallImageIsNoError ==
    (Processed /\ C30_SmallFrame) =>
        LET summary == VisionProcessChunk(last_call.frame)
        IN  /\ GenerateSegments(last_call.frame.width, last_call.frame.height) = <<>>
            /\ ~ summary.error
            /\ summary.total_human_count = 0
            /\ summary.key_details = <<>>
            /\ summary.segments = <<>>
            /\ last_call.key_details = <<>>
            /\ LastSituation.humans_detected = 0
            /\ LastSituation.chunk_id = last_call.chunk_id
            /\ added[Len(added)] = LastSituation
            /\ recent_situations[Len(recent_situations)] = LastSituation
            /\ last_chunk_id = last_call.chunk_id

\* a frame 255 pixels high after a frame of one tile: the second record of
\* the stream is of the small frame and counts nobody
C30_Witness ==
    /\ Processed
    /\ last_call.frame.width = 600
    /\ last_call.frame.height = 255
    /\ Len(added) = 2
    /\ added[1].humans_detected = 2
    /\ added[2] = LastSituation
    /\ LastSituation.humans_detected = 0

===========================================================================
